---- MODULE Spec2Model ----
(***************************************************************************)
(* ContractWrapper.sendTransaction of src/core/classes/contract-wrapper.ts *)
(* as a state machine.  Every sendTransaction call is a process whose pc   *)
(* names the await it is suspended at; an action is the synchronous code   *)
(* that runs from the resumption of one await up to the next await.        *)
(* Amounts are integers; parseUnits(x, "gwei") is scaled by GweiUnit.      *)
(***************************************************************************)
EXTENDS Integers, Sequences, FiniteSets, TLC

VARIABLES
  options,          \* SDKOptions: gasless configuration and gasSettings
  browser,          \* result of isBrowser()
  hasSigner,        \* getSigner() returns a signer
  connection,       \* the signer of the wrapper and its writeContract and readContract
  chain,            \* what the provider reports: code, fee data, block, gas price
  forwarder,        \* the forwarder contract's nonce of the sender, and what was signed and executed
  isValidContract,  \* ContractWrapper.isValidContract
  customOverrides,  \* ContractWrapper.customOverrides: the hook's result and the install it stems from
  installs,         \* number of withTransactionOverride calls made so far
  calls             \* one record per sendTransaction call

vars == <<options, browser, hasSigner, connection, chain, forwarder, isValidContract, customOverrides, installs, calls>>

\* getSigner() of a wrapper connected to a provider only
NoSigner == 0

\* the signers a wrapper can be connected to, by their addresses
Wallets == {1, 2}

\* contractAddress of the constructor
ContractAddress == "0xC0"

\* constructor lines 60-68 and updateSignerOrProvider lines 77-83:
\* writeContract is connected to the signer, readContract to the provider
Connected(signer, address) ==
  [signer |-> signer,
   writeContract |-> [address |-> address, signer |-> signer],
   readContract |-> [address |-> address],
   updates |-> 0, supplied |-> signer, provider |-> "constructed"]

\* bound on the number of updateSignerOrProvider calls
MaxUpdates == 2

\* super.updateSignerOrProvider(network) with a signer: getSigner() and
\* getSignerOrProvider() return it from now on
RPCUpdateSigner(conn, network) ==
  [conn EXCEPT !.signer = network, !.supplied = network, !.updates = @ + 1]

\* providers a wrapper can be connected to: the one it was constructed with,
\* on the network of chain, one of a network on which the address holds a
\* contract and one of a network on which it holds nothing
Providers == {"constructed", "deployed", "empty"}

\* super.updateSignerOrProvider(network) with a provider: getProvider()
\* returns it from now on and no signer is connected
RPCUpdateProvider(conn, network) ==
  [conn EXCEPT !.provider = network, !.signer = NoSigner, !.supplied = NoSigner,
               !.updates = @ + 1]

\* updateSignerOrProvider with writeContract left as it was
ReconnectReadOnly(conn) ==
  [conn EXCEPT !.readContract = [address |-> conn.writeContract.address]]

\* updateSignerOrProvider lines 77-83: writeContract.connect(getSignerOrProvider())
\* and writeContract.connect(getProvider()) keep the address
Reconnect(conn) ==
  [conn EXCEPT !.writeContract = [address |-> conn.writeContract.address, signer |-> conn.signer],
               !.readContract = [address |-> conn.writeContract.address]]

\* the forwarder before any request of the sender was executed
NewForwarder == [nonce |-> 0, signedLog |-> <<>>, executedLog |-> <<>>]

\* identities of the sendTransaction calls that may be in flight together
Calls == {1, 2}

\* bound on the number of withTransactionOverride calls
MaxInstalls == 1

\* parseUnits("1", "gwei"), scaled down to stay inside TLC's integers
GweiUnit == 1000

\* the hash of a relay body that has no txHash (undefined)
Undefined == 0

\* a fee-data or block field the provider reports as null
Null == -1

------------------------------------------------------------------------------
(* CallOverrides objects are functions from the names of the fields that are *)
(* present to their values.                                                  *)

FeeFields == {"gasPrice", "maxFeePerGas", "maxPriorityFeePerGas"}
OverrideFields == FeeFields \cup {"value", "gasLimit"}

EmptyOverrides == [f \in {} |-> 0]

\* { ...a, ...b }
SpreadFirstWins(a, b) ==
  [f \in (DOMAIN a) \cup (DOMAIN b) |-> IF f \in DOMAIN a THEN a[f] ELSE b[f]]

Spread(a, b) ==
  [f \in (DOMAIN a) \cup (DOMAIN b) |-> IF f \in DOMAIN b THEN b[f] ELSE a[f]]

HasLegacyShape(o) == "gasPrice" \in DOMAIN o
Has1559Shape(o) == {"maxFeePerGas", "maxPriorityFeePerGas"} \subseteq DOMAIN o
HasAny1559Field(o) == {"maxFeePerGas", "maxPriorityFeePerGas"} \cap DOMAIN o # {}

\* callOverrides?.value || 0
ValueOf(o) == IF "value" \in DOMAIN o THEN o["value"] ELSE 0

------------------------------------------------------------------------------
(* FeeStrategy: getPreferredPriorityFee, getPreferredGasPrice                *)

Speeds == {"standard", "fast", "fastest"}

ParseGwei(n) == n * GweiUnit

\* parseUnits("2.5", "gwei")
MinPriorityFee == (25 * GweiUnit) \div 10

\* the two clamps in the other order: the floor first, the ceiling last
getPreferredPriorityFeeCeilingLast(opts, defaultPriorityFeePerGas) ==
  LET extraTip == CASE opts.speed = "standard" -> 0
                    [] opts.speed = "fast" -> (defaultPriorityFeePerGas \div 100) * 5
                    [] opts.speed = "fastest" -> (defaultPriorityFeePerGas \div 100) * 10
      txGasPrice == defaultPriorityFeePerGas + extraTip
      max == ParseGwei(opts.maxPriceInGwei)
      raised == IF txGasPrice < MinPriorityFee THEN MinPriorityFee ELSE txGasPrice
  IN IF raised > max THEN max ELSE raised

getPreferredPriorityFee(opts, defaultPriorityFeePerGas) ==
  LET extraTip == CASE opts.speed = "standard" -> 0
                    [] opts.speed = "fast" -> (defaultPriorityFeePerGas \div 100) * 5
                    [] opts.speed = "fastest" -> (defaultPriorityFeePerGas \div 100) * 10
      txGasPrice == defaultPriorityFeePerGas + extraTip
      max == ParseGwei(opts.maxPriceInGwei)
      capped == IF txGasPrice > max THEN max ELSE txGasPrice
  IN IF capped < MinPriorityFee THEN MinPriorityFee ELSE capped

\* the legacy price with the floor of the priority fee applied to it
getPreferredGasPriceWithFloor(opts, gasPrice) ==
  LET extraTip == CASE opts.speed = "standard" -> 1
                    [] opts.speed = "fast" -> (gasPrice \div 100) * 5
                    [] opts.speed = "fastest" -> (gasPrice \div 100) * 10
      txGasPrice == gasPrice + extraTip
      max == ParseGwei(opts.maxPriceInGwei)
      capped == IF txGasPrice > max THEN max ELSE txGasPrice
  IN IF capped < MinPriorityFee THEN MinPriorityFee ELSE capped

getPreferredGasPrice(opts, gasPrice) ==
  LET extraTip == CASE opts.speed = "standard" -> 1
                    [] opts.speed = "fast" -> (gasPrice \div 100) * 5
                    [] opts.speed = "fastest" -> (gasPrice \div 100) * 10
      txGasPrice == gasPrice + extraTip
      max == ParseGwei(opts.maxPriceInGwei)
  IN IF txGasPrice > max THEN max ELSE txGasPrice

\* a missing base fee counted as zero
BaseBlockFeeZeroDefault(ch) == IF ch.baseFeePerGas # Null THEN ch.baseFeePerGas ELSE 0

\* block && block.baseFeePerGas ? block.baseFeePerGas : parseUnits("1", "gwei")
BaseBlockFee(ch) == IF ch.baseFeePerGas # Null THEN ch.baseFeePerGas ELSE ParseGwei(1)

\* the object getCallOverrides returns on the EIP-1559 branch
Overrides1559WithGasPrice(opts, ch, defaultPriorityFee) ==
  [f \in FeeFields |-> getPreferredPriorityFee(opts, defaultPriorityFee)]

Overrides1559(opts, ch, defaultPriorityFee) ==
  LET maxPriorityFeePerGas == getPreferredPriorityFee(opts, defaultPriorityFee)
      baseMaxFeePerGas == BaseBlockFee(ch) * 2
  IN [f \in {"maxFeePerGas", "maxPriorityFeePerGas"} |->
        IF f = "maxFeePerGas" THEN baseMaxFeePerGas + maxPriorityFeePerGas
        ELSE maxPriorityFeePerGas]

\* the object getCallOverrides returns on the legacy branch
OverridesLegacy(opts, ch) ==
  [f \in {"gasPrice"} |-> getPreferredGasPrice(opts, ch.gasPrice)]

\* feeData.maxFeePerGas && feeData.maxPriorityFeePerGas
supports1559(ch) == ch.maxFeePerGas # Null /\ ch.maxPriorityFeePerGas # Null

\* ChainId.Polygon and ChainId.Mumbai
Polygon == 137
Mumbai == 80001
Mainnet == 1

------------------------------------------------------------------------------
(* The record of one sendTransaction call.  trace lists, in order, the       *)
(* requests the call has issued and the results and events it has produced;  *)
(* txEvents are the transaction events the call has emitted.                 *)

NewCall ==
  [pc |-> "idle", fn |-> "", nargs |-> 0, given |-> FALSE,
   callOverrides |-> EmptyOverrides, resolved |-> EmptyOverrides,
   custom |-> EmptyOverrides, merged |-> FALSE, appliedHook |-> 0,
   argOverrides |-> EmptyOverrides, path |-> "none", gasEstimate |-> 0, gasLimit |-> 0,
   startedAt |-> 0, from |-> NoSigner, signer |-> NoSigner, signedBy |-> NoSigner,
   oracle |-> "none", defaultPriorityFee |-> Null, relayFailedBefore |-> {}, nonce |-> Null, executedBefore |-> 0, signedNonce |-> Null, executed |-> FALSE,
   sigEvents |-> <<>>, message |-> [kind |-> "none", fields |-> {}],
   signed |-> [kind |-> "none", fields |-> {}],
   request |-> [kind |-> "none", fields |-> {}], messageType |-> "",
   response |-> "", relayHash |-> Undefined, txHash |-> Undefined,
   code |-> "", built |-> [kind |-> "none"], signedWith |-> "",
   trace |-> <<>>, txEvents |-> <<>>, error |-> "none"]

Do(rec, op) == [rec EXCEPT !.trace = Append(@, op)]
At(rec, label) == [rec EXCEPT !.pc = label]
Throw(rec, err) == [rec EXCEPT !.pc = "failed", !.error = err]

\* emitTransactionEvent(status, transactionHash)
emitTransactionEvent(rec, status, transactionHash) ==
  [rec EXCEPT !.txEvents = Append(@, [status |-> status, transactionHash |-> transactionHash]),
              !.trace = Append(@, IF status = "submitted" THEN "txSubmitted" ELSE "txCompleted")]

\* options.gasless && ("openzeppelin" in options.gasless || "biconomy" in options.gasless)
GaslessConfigured(opts) ==
  "openzeppelin" \in opts.gasless \/ "biconomy" \in opts.gasless

------------------------------------------------------------------------------
(* Synchronous code of sendTransaction between two awaits, as functions from *)
(* the call's record to its record at the next await.                        *)

\* sendTransactionByFunction up to the await of func(...args, callOverrides)
sendTransactionByFunction(rec) ==
  At(Do([rec EXCEPT !.path = "direct", !.signedBy = connection.writeContract.signer],
        "contractCall"), "broadcast")

\* sendGaslessTransaction up to the await of getChainID()
\* sendGaslessTransaction without the invariant of lines 343-347
sendGaslessTransactionUnguarded(rec, signerSet) ==
  At(Do([rec EXCEPT !.path = "gasless"], "getNetwork"), "glChainId")

sendGaslessTransaction(rec, signerSet) ==
  LET r == [rec EXCEPT !.path = "gasless"]
  IN IF ~signerSet THEN Throw(r, "NoSigner")
     ELSE At(Do(r, "getNetwork"), "glChainId")

\* the branch of sendTransaction after the merge (lines 287-308)
SelectPathByValue(rec, opts, signerSet) ==
  IF GaslessConfigured(opts) /\ ValueOf(rec.callOverrides) = 0
  THEN sendGaslessTransaction(rec, signerSet)
  ELSE sendTransactionByFunction(rec)

SelectPath(rec, opts, signerSet) ==
  IF GaslessConfigured(opts) THEN sendGaslessTransaction(rec, signerSet)
  ELSE sendTransactionByFunction(rec)

\* getCallOverrides up to its first await
getCallOverridesIgnoringBrowser(rec, inBrowser) ==
  At(Do(rec, "getFeeData"), "getFeeData")

getCallOverridesUnlessHooked(rec, inBrowser) ==
  IF inBrowser \/ customOverrides.install # 0 THEN At(rec, "browserOverrides")
  ELSE At(Do(rec, "getFeeData"), "getFeeData")

getCallOverrides(rec, inBrowser) ==
  IF inBrowser THEN At(rec, "browserOverrides")
  ELSE At(Do(rec, "getFeeData"), "getFeeData")

\* line 286: this.customOverrides = () => ({})
KeptHook == customOverrides

ClearedHook == [overrides |-> EmptyOverrides, install |-> 0]

\* lines 281-308: merge the resolved overrides with the hook's result, clear
\* the hook, and enter the selected path
MergeAndSend(c, rec, resolved) ==
  LET r == [rec EXCEPT !.resolved = resolved,
                       !.custom = customOverrides.overrides,
                       !.callOverrides = Spread(resolved, customOverrides.overrides),
                       !.merged = TRUE,
                       !.appliedHook = customOverrides.install]
  IN /\ customOverrides' = ClearedHook
     /\ calls' = [calls EXCEPT ![c] = SelectPath(r, options, hasSigner)]

\* lines 277-279: use the caller's overrides or ask the FeeStrategy
ResolveOverridesAlwaysAsks(c, rec) ==
  /\ calls' = [calls EXCEPT ![c] = getCallOverrides(rec, browser)]
  /\ UNCHANGED customOverrides

ResolveOverrides(c, rec) ==
  IF rec.given THEN MergeAndSend(c, rec, rec.callOverrides)
  ELSE /\ calls' = [calls EXCEPT ![c] = getCallOverrides(rec, browser)]
       /\ UNCHANGED customOverrides

------------------------------------------------------------------------------
(* Inputs *)

\* the contract functions the calls of Spec invoke
FunctionCalls == {[fn |-> "transfer", nargs |-> 2]}

\* callOverrides arguments of sendTransaction; given = FALSE is an omitted argument
CallOverridesArgs ==
  { [given |-> FALSE, callOverrides |-> EmptyOverrides],
    [given |-> TRUE, callOverrides |-> [f \in {"value", "gasPrice"} |-> IF f = "value" THEN 1 ELSE 7]],
    [given |-> TRUE, callOverrides |-> [f \in FeeFields |-> 7]] }

\* results of the hooks passed to withTransactionOverride
HookResults ==
  { [f \in {"value"} |-> 2],
    [f \in {"gasPrice"} |-> 9] }

------------------------------------------------------------------------------
(* Actions *)

\* updateSignerOrProvider(network) with a signer
updateSignerOrProvider(network) ==
  /\ connection.updates < MaxUpdates
  /\ connection' = Reconnect(RPCUpdateSigner(connection, network))
  /\ hasSigner' = TRUE
  /\ UNCHANGED <<options, browser, chain, forwarder, isValidContract, customOverrides, installs, calls>>

\* updateSignerOrProvider(network) with a provider
updateSignerOrProviderToProvider(network) ==
  /\ connection.updates < MaxUpdates
  /\ connection' = Reconnect(RPCUpdateProvider(connection, network))
  /\ hasSigner' = FALSE
  /\ UNCHANGED <<options, browser, chain, forwarder, isValidContract, customOverrides, installs, calls>>

\* withTransactionOverride(hook)
withTransactionOverride(h) ==
  /\ installs < MaxInstalls
  /\ installs' = installs + 1
  /\ customOverrides' = [overrides |-> h, install |-> installs + 1]
  /\ UNCHANGED <<options, browser, hasSigner, connection, chain, forwarder, isValidContract, calls>>

\* line 267: if (!this.isValidContract)
AlwaysCheck(valid) == TRUE

NeedsValidityCheck(valid) == ~valid

\* what getProvider().getCode(this.readContract.address) answers
getCode(provider) ==
  CASE provider = "constructed" -> chain.code
    [] provider = "deployed" -> "0x60"
    [] provider = "empty" -> "0x"

\* line 269: code !== "0x"
AnyCodeIsContract(code) == TRUE

IsContractCode(code) == code # "0x"

\* sendTransaction(fn, args, callOverrides) up to its first await
\* the calls that have failed at relay submission so far
RelayFailedCalls == {d \in Calls : calls[d].pc = "failed" /\ calls[d].error = "RelayRejected"}

sendTransaction(c, f, co) ==
  /\ calls[c].pc = "idle"
  /\ \A d \in Calls : d < c => calls[d].pc # "idle"   \* calls are numbered in the order they are made
  /\ LET rec == [calls[c] EXCEPT !.fn = f.fn, !.nargs = f.nargs,
                                 !.given = co.given, !.callOverrides = co.callOverrides,
                                 !.argOverrides = co.callOverrides,
                                 !.relayFailedBefore = RelayFailedCalls,
                                 !.startedAt = connection.updates]
     IN IF NeedsValidityCheck(isValidContract)
        THEN /\ calls' = [calls EXCEPT ![c] =
                  At(Do([rec EXCEPT !.code = getCode(connection.provider)], "getCode"), "getCode")]
             /\ UNCHANGED customOverrides
        ELSE ResolveOverrides(c, rec)
  /\ UNCHANGED <<options, browser, hasSigner, connection, chain, forwarder, isValidContract, installs>>

\* lines 268-275: getCode has returned
CodeReturned(c) ==
  /\ calls[c].pc = "getCode"
  /\ isValidContract' = IsContractCode(calls[c].code)
  /\ IF ~IsContractCode(calls[c].code)
     THEN /\ calls' = [calls EXCEPT ![c] = Throw(@, "NotAContract")]
          /\ UNCHANGED customOverrides
     ELSE ResolveOverrides(c, calls[c])
  /\ UNCHANGED <<options, browser, hasSigner, connection, chain, forwarder, installs>>

\* getCallOverrides line 124: getFeeData has returned (or failed)
FeeDataReturnedClearsHook(c, ok) ==
  /\ calls[c].pc = "getFeeData"
  /\ calls' = [calls EXCEPT ![c] =
        IF ~ok THEN Throw(@, "NetworkError")
        ELSE IF supports1559(chain) THEN At(Do(@, "getNetwork"), "feeChainId")
        ELSE At(Do(@, "getGasPrice"), "getGasPrice")]
  /\ customOverrides' = IF ok THEN customOverrides ELSE ClearedHook
  /\ UNCHANGED <<options, browser, hasSigner, connection, chain, forwarder, isValidContract, installs>>

FeeDataReturned(c, ok) ==
  /\ calls[c].pc = "getFeeData"
  /\ calls' = [calls EXCEPT ![c] =
        IF ~ok THEN Throw(@, "NetworkError")
        ELSE IF supports1559(chain) THEN At(Do(@, "getNetwork"), "feeChainId")
        ELSE At(Do(@, "getGasPrice"), "getGasPrice")]
  /\ UNCHANGED <<options, browser, hasSigner, connection, chain, forwarder, isValidContract, customOverrides, installs>>

\* getCallOverrides line 127: getChainID has returned
FeeChainIdReturned(c) ==
  /\ calls[c].pc = "feeChainId"
  /\ calls' = [calls EXCEPT ![c] = At(Do(@, "getBlock"), "getBlock")]
  /\ UNCHANGED <<options, browser, hasSigner, connection, chain, forwarder, isValidContract, customOverrides, installs>>

\* getCallOverrides lines 128-150: the latest block has returned
BlockReturned(c) ==
  /\ calls[c].pc = "getBlock"
  /\ IF chain.chainId \in {Mumbai, Polygon}
     THEN /\ calls' = [calls EXCEPT ![c] = At(Do(@, "gasStation"), "gasStation")]
          /\ UNCHANGED customOverrides
     ELSE MergeAndSend(c, [calls[c] EXCEPT !.defaultPriorityFee = chain.maxPriorityFeePerGas],
                       Overrides1559(options, chain, chain.maxPriorityFeePerGas))
  /\ UNCHANGED <<options, browser, hasSigner, connection, chain, forwarder, isValidContract, installs>>

\* what the gas station does with the request of getPolygonGasPriorityFee
OracleResults == {"fee", "failed"}

\* getPolygonGasPriorityFee with a fee fixed per chain as its fallback
getPolygonGasPriorityFeeFixedFallback(ch, result) ==
  IF result = "fee" THEN ch.gasStationFee ELSE ParseGwei(31)

\* getPolygonGasPriorityFee(chainId): the gas station's fee, or the
\* network-reported priority fee when the gas station fails
getPolygonGasPriorityFee(ch, result) ==
  IF result = "fee" THEN ch.gasStationFee ELSE ch.maxPriorityFeePerGas

\* getCallOverrides lines 136, 141-150: the gas station has answered or failed
GasStationReturned(c, result) ==
  /\ calls[c].pc = "gasStation"
  /\ LET defaultPriorityFee == getPolygonGasPriorityFee(chain, result)
     IN MergeAndSend(c, [calls[c] EXCEPT !.oracle = result,
                                         !.defaultPriorityFee = defaultPriorityFee],
                     Overrides1559(options, chain, defaultPriorityFee))
  /\ UNCHANGED <<options, browser, hasSigner, connection, chain, forwarder, isValidContract, installs>>

\* getPreferredGasPrice line 195 and getCallOverrides lines 152-154
GasPriceReturned(c) ==
  /\ calls[c].pc = "getGasPrice"
  /\ MergeAndSend(c, calls[c], OverridesLegacy(options, chain))
  /\ UNCHANGED <<options, browser, hasSigner, connection, chain, forwarder, isValidContract, installs>>

\* getCallOverrides line 122 and the await of line 278 in a browser
BrowserOverridesReturned(c) ==
  /\ calls[c].pc = "browserOverrides"
  /\ MergeAndSend(c, calls[c], EmptyOverrides)
  /\ UNCHANGED <<options, browser, hasSigner, connection, chain, forwarder, isValidContract, installs>>

\* the hash the network gives the transaction of call c
Hash(c) == c

\* lines 304-307 as the source has them: tx.wait() is called, not awaited
DirectCompletion(rec, hash) ==
  At(emitTransactionEvent(Do(emitTransactionEvent([rec EXCEPT !.txHash = hash],
        "submitted", hash), "txWait"), "completed", hash), "txWait")

\* lines 299-307: the contract function has returned the broadcast transaction
BroadcastReturned(c, ok) ==
  /\ calls[c].pc = "broadcast"
  /\ calls' = [calls EXCEPT ![c] =
        IF hasSigner /\ ok THEN DirectCompletion(Do(@, "broadcast"), Hash(c))
        ELSE Throw(@, "TransactionFailed")]
  /\ UNCHANGED <<options, browser, hasSigner, connection, chain, forwarder, isValidContract, customOverrides, installs>>

\* line 307: the promise of tx.wait() that sendTransaction returned settles
ReceiptReturned(c, ok) ==
  /\ calls[c].pc = "txWait"
  /\ calls' = [calls EXCEPT ![c] =
        IF ok THEN At(Do(@, "receipt"), "done") ELSE Throw(@, "ReceiptFailed")]
  /\ UNCHANGED <<options, browser, hasSigner, connection, chain, forwarder, isValidContract, customOverrides, installs>>

------------------------------------------------------------------------------
(* Gasless path: sendGaslessTransaction, defaultGaslessSendFunction,         *)
(* biconomySendFunction, defenderSendFunction                                *)

\* raw results of estimateGas in Spec
GasEstimates == {30000}

\* raw results of estimateGas in SpecRelay
RelayGasEstimates == {20000, 24999, 25000, 30000}

GasThreshold == 25000
FallbackGas == 500000

\* the doubled estimate without the fallback
GasLimitAlwaysDoubled(gasEstimate) == gasEstimate * 2

\* lines 368-375
GasLimitFor(gasEstimate) ==
  IF gasEstimate < GasThreshold THEN FallbackGas ELSE gasEstimate * 2

\* defaultGaslessSendFunction lines 435-438
BackendPrefersOpenzeppelin(opts) ==
  IF "openzeppelin" \in opts.gasless THEN "openzeppelin" ELSE "biconomy"

Backend(opts) == IF "biconomy" \in opts.gasless THEN "biconomy" ELSE "openzeppelin"

\* what the relay endpoint may answer
RelayResponses == {"txHash", "noTxHash", "emptyBody", "httpError"}

\* getSignerAddress lines 97-105, up to await signer.getAddress()
getSignerAddress(rec, signerSet) ==
  IF ~signerSet THEN Throw(rec, "NoSigner")
  ELSE At(Do([rec EXCEPT !.from = connection.signer], "getSignerAddress"), "glSignerAddress")

\* lines 349-350: getChainID has returned
GlChainIdReturned(c) ==
  /\ calls[c].pc = "glChainId"
  /\ calls' = [calls EXCEPT ![c] = getSignerAddress(@, hasSigner)]
  /\ UNCHANGED <<options, browser, hasSigner, connection, chain, forwarder, isValidContract, customOverrides, installs>>

\* lines 350-367: the signer address has returned; value check, encoding,
\* request of the gas estimate
GlSignerAddressReturned(c) ==
  /\ calls[c].pc = "glSignerAddress"
  /\ calls' = [calls EXCEPT ![c] =
        IF ValueOf(@.callOverrides) > 0 THEN Throw(@, "UnsupportedValue")
        ELSE At(Do(@, "estimateGas"), "estimateGas")]
  /\ UNCHANGED <<options, browser, hasSigner, connection, chain, forwarder, isValidContract, customOverrides, installs>>

\* lines 365-388 and the backend's code up to getAndIncrementNonce
GasEstimated(c, ok, gasEstimate) ==
  /\ calls[c].pc = "estimateGas"
  /\ calls' = [calls EXCEPT ![c] =
        IF ~ok THEN Throw(@, "EstimationFailed")
        ELSE At(Do([@ EXCEPT !.signer = connection.signer,
                             !.gasEstimate = gasEstimate,
                             !.gasLimit = GasLimitFor(gasEstimate)], "getNonce"), "getNonce")]
  /\ UNCHANGED <<options, browser, hasSigner, connection, chain, forwarder, isValidContract, customOverrides, installs>>

\* the messages of the payloads, by the names of their fields
ForwardRequestMessage ==
  [kind |-> "ForwardRequest", fields |-> {"from", "to", "value", "gas", "nonce", "data"}]

PermitRequestMessage ==
  [kind |-> "PermitRequest",
   fields |-> {"to", "owner", "spender", "value", "nonce", "deadline", "r", "s", "v"}]

\* biconomy lines 466-509: hashToSign of the request
BiconomyHashToSign ==
  [kind |-> "hashToSign",
   fields |-> {"from", "to", "token", "txGas", "tokenGasPrice", "batchId", "batchNonce",
               "deadline", "data"}]

\* this.emit(EventType.Signature, {status, message, signature})
emitSignatureEvent(rec, status, message) ==
  [rec EXCEPT !.sigEvents = Append(@, [status |-> status, message |-> message]),
              !.trace = Append(@, IF status = "submitted" THEN "sigSubmitted" ELSE "sigCompleted")]

\* defender lines 599-602: the call is signed as an EIP-2612 permit
UsesPermit(rec) == rec.fn = "approve" /\ rec.nargs = 2

\* ethers.constants.AddressZero
AddressZero == "0x00"

\* the fields of a biconomy request
BiconomyRequestFields ==
  {"from", "to", "token", "txGas", "tokenGasPrice", "batchId", "batchNonce", "deadline", "data"}

\* encodeFunctionData(fn, args) of lines 360-363
CallData(rec) == [fn |-> rec.fn, nargs |-> rec.nargs]

\* biconomy lines 460-482: the request built for the transaction
BiconomyRequest(rec) ==
  [f \in BiconomyRequestFields |->
     CASE f = "from" -> rec.from
       [] f = "to" -> connection.writeContract.address
       [] f = "token" -> AddressZero
       [] f = "txGas" -> rec.gasLimit
       [] f = "tokenGasPrice" -> "0"
       [] f = "batchId" -> 0
       [] f = "batchNonce" -> rec.nonce
       [] f = "deadline" -> "now+deadlineSeconds"
       [] f = "data" -> CallData(rec)]

\* biconomySendFunction with the permit substitution of the defender backend
biconomySignWithPermit(rec) ==
  At(Do([emitSignatureEvent([rec EXCEPT !.message = BiconomyHashToSign],
                            "submitted", BiconomyHashToSign)
           EXCEPT !.signed = IF UsesPermit(rec) THEN PermitRequestMessage ELSE BiconomyHashToSign,
                  !.signedNonce = IF UsesPermit(rec) THEN Null ELSE rec.nonce,
                  !.built = BiconomyRequest(rec),
                  !.signedWith = IF UsesPermit(rec) THEN "signEIP2612Permit" ELSE "signMessage"],
        "signRequest"), "sign")

\* biconomy lines 466-516: request, hash, signature event, signMessage(hashToSign)
biconomySign(rec) ==
  At(Do([emitSignatureEvent([rec EXCEPT !.message = BiconomyHashToSign],
                            "submitted", BiconomyHashToSign)
           EXCEPT !.signed = BiconomyHashToSign, !.signedNonce = rec.nonce,
                  !.built = BiconomyRequest(rec), !.signedWith = "signMessage"],
        "signRequest"), "sign")

\* defender lines 569-636: message, signature event, then signEIP2612Permit
\* for a permit or signTypedDataInternal for the message
defenderSignFirstNonce(rec) ==
  At(Do([emitSignatureEvent([rec EXCEPT !.message = ForwardRequestMessage],
                            "submitted", ForwardRequestMessage)
           EXCEPT !.signed = IF UsesPermit(rec) THEN PermitRequestMessage
                             ELSE ForwardRequestMessage,
                  !.signedNonce = IF UsesPermit(rec) THEN Null
                                  ELSE IF forwarder.signedLog = <<>> THEN rec.nonce
                                  ELSE forwarder.signedLog[1].nonce],
        "signRequest"), "sign")

defenderSign(rec) ==
  At(Do([emitSignatureEvent([rec EXCEPT !.message = ForwardRequestMessage],
                            "submitted", ForwardRequestMessage)
           EXCEPT !.signed = IF UsesPermit(rec) THEN PermitRequestMessage
                             ELSE ForwardRequestMessage,
                  !.signedNonce = IF UsesPermit(rec) THEN Null ELSE rec.nonce,
                  !.signedWith = IF UsesPermit(rec) THEN "signEIP2612Permit"
                                 ELSE "signTypedData"],
        "signRequest"), "sign")

\* getAndIncrementNonce(forwarder, "getNonce", [from, ...]): a read of the
\* forwarder's nonce of the sender, returned to be used at once
getAndIncrementNonceAhead(fw) == fw.nonce + 1

getAndIncrementNonceLocalCounter(fw) == Len(fw.signedLog)

getAndIncrementNonce(fw) == fw.nonce

\* the request carries the forwarder's nonce: a ForwardRequest or a Biconomy
\* request, but no permit
CarriesForwarderNonce(message) == message.kind \in {"ForwardRequest", "hashToSign"}

\* the forwarder verifies the nonce of a relayed request: it executes the
\* request and advances when the nonce is current, and rejects a stale one
ForwarderAcceptsAny(fw, nonce) == TRUE

ForwarderAccepts(fw, nonce) == nonce = fw.nonce

ForwarderExecute(fw, c, nonce) ==
  IF ForwarderAccepts(fw, nonce)
  THEN [fw EXCEPT !.nonce = @ + 1, !.executedLog = Append(@, [call |-> c, nonce |-> nonce])]
  ELSE fw

\* the signature of a request with a forwarder nonce, in signing order
LogSigned(fw, c, rec) ==
  IF CarriesForwarderNonce(rec.signed)
  THEN [fw EXCEPT !.signedLog = Append(@, [call |-> c, nonce |-> rec.signedNonce])]
  ELSE fw

\* biconomy lines 461-516, defender lines 566-636: the nonce has been read;
\* the signature event "submitted" is emitted and the signer is asked to sign
NonceRead(c) ==
  /\ calls[c].pc = "getNonce"
  /\ LET rec == [calls[c] EXCEPT !.signedBy = calls[c].signer,
                                 !.nonce = getAndIncrementNonce(forwarder),
                                 !.executedBefore = Len(forwarder.executedLog)]
     IN calls' = [calls EXCEPT ![c] =
          IF Backend(options) = "biconomy" THEN biconomySign(rec) ELSE defenderSign(rec)]
  /\ UNCHANGED <<options, browser, hasSigner, connection, chain, forwarder, isValidContract, customOverrides, installs>>

\* defender lines 638-643: "permit" if the message has an owner
MessageTypeAlwaysForward(message) == "forward"

MessageType(message) == IF "owner" \in message.fields THEN "permit" ELSE "forward"

\* biconomy lines 517-538: signature event "completed", POST of
\* {from, apiId, params: [request, signature], to, gasLimit}
biconomyPost(rec) ==
  At(Do([emitSignatureEvent(rec, "completed", rec.message)
           EXCEPT !.request = rec.message], "relayPost"), "relayPost")

\* defender lines 614-660: the permit replaces the message, type, signature
\* event "completed", POST of {request: message, signature, type}
defenderPost(rec) ==
  LET message == IF UsesPermit(rec) THEN PermitRequestMessage ELSE rec.message
  IN At(Do([emitSignatureEvent([rec EXCEPT !.message = message], "completed", message)
              EXCEPT !.request = message, !.messageType = MessageType(message)],
           "relayPost"), "relayPost")

\* biconomy lines 516-538, defender lines 606-660: the signer has answered;
\* the signature event "completed" is emitted and the payload is posted
Signed(c, ok) ==
  /\ calls[c].pc = "sign"
  /\ calls' = [calls EXCEPT ![c] =
        IF ~ok THEN Throw(@, "SignatureFailed")
        ELSE IF Backend(options) = "biconomy" THEN biconomyPost(@) ELSE defenderPost(@)]
  /\ forwarder' = IF ok THEN LogSigned(forwarder, c, calls[c]) ELSE forwarder
  /\ UNCHANGED <<options, browser, hasSigner, connection, chain, isValidContract, customOverrides, installs>>

\* biconomy lines 540-549: the hash the response yields, or a thrown error
BiconomyResultUnchecked(resp, hash) ==
  CASE resp = "txHash" -> [thrown |-> FALSE, txHash |-> hash]
    [] resp \in {"noTxHash", "emptyBody"} -> [thrown |-> FALSE, txHash |-> Undefined]
    [] resp = "httpError" -> [thrown |-> TRUE, txHash |-> Undefined]

BiconomyResult(resp, hash) ==
  CASE resp = "txHash" -> [thrown |-> FALSE, txHash |-> hash]
    [] resp \in {"noTxHash", "emptyBody"} -> [thrown |-> TRUE, txHash |-> Undefined]
    [] resp = "httpError" -> [thrown |-> TRUE, txHash |-> Undefined]

\* defender lines 661-668: JSON.parse(resp.result) throws on a body without
\* result; result.txHash of a result without txHash is undefined
DefenderResult(resp, hash) ==
  CASE resp = "txHash" -> [thrown |-> FALSE, txHash |-> hash]
    [] resp = "noTxHash" -> [thrown |-> FALSE, txHash |-> Undefined]
    [] resp = "emptyBody" -> [thrown |-> TRUE, txHash |-> Undefined]
    [] resp = "httpError" -> [thrown |-> TRUE, txHash |-> Undefined]

\* lines 293-295: sendGaslessTransaction has returned txHash
GaslessSubmittedNoAwait(rec, txHash) ==
  At(emitTransactionEvent(Do(emitTransactionEvent([rec EXCEPT !.txHash = txHash],
        "submitted", txHash), "waitForTransaction"), "completed", txHash), "waitForTransaction")

GaslessSubmitted(rec, txHash) ==
  At(Do(emitTransactionEvent([rec EXCEPT !.txHash = txHash], "submitted", txHash),
        "waitForTransaction"), "waitForTransaction")

\* biconomy lines 543, 547 and defender lines 663, 666: the error ends the call
RelayRetried(rec) == At(Do(Do(rec, "relayFailed"), "relayPost"), "relayPost")

RelayFailed(rec) == Throw(Do(rec, "relayFailed"), "RelayRejected")

\* the relay has answered the POST
RelayResponded(c, resp) ==
  /\ calls[c].pc = "relayPost"
  /\ LET res == IF Backend(options) = "biconomy" THEN BiconomyResult(resp, Hash(c))
                ELSE DefenderResult(resp, Hash(c))
     IN calls' = [calls EXCEPT ![c] =
          IF res.thrown THEN RelayFailed([@ EXCEPT !.response = resp])
          ELSE GaslessSubmitted(Do([@ EXCEPT !.response = resp, !.relayHash = res.txHash],
                                   "relayReturned"), res.txHash)]
  /\ UNCHANGED <<options, browser, hasSigner, connection, chain, forwarder, isValidContract, customOverrides, installs>>

\* lines 295-297: provider.waitForTransaction(txHash) has settled; it cannot
\* yield a receipt for an undefined hash
TransactionMined(c, ok) ==
  /\ calls[c].pc = "waitForTransaction"
  /\ LET mined == ok /\ calls[c].txHash # Undefined
         onForwarder == mined /\ CarriesForwarderNonce(calls[c].request)
     IN /\ calls' = [calls EXCEPT ![c] =
             IF mined
             THEN At(emitTransactionEvent(Do([@ EXCEPT !.executed =
                       onForwarder => ForwarderAccepts(forwarder, calls[c].signedNonce)],
                     "receipt"), "completed", @.txHash), "done")
             ELSE Throw(@, "ReceiptFailed")]
        /\ forwarder' = IF onForwarder
                        THEN ForwarderExecute(forwarder, c, calls[c].signedNonce)
                        ELSE forwarder
  /\ UNCHANGED <<options, browser, hasSigner, connection, chain, isValidContract, customOverrides, installs>>

\* the relay executed the request of a call although the call saw the relay
\* submission fail
ForwarderAdvanced(c) ==
  /\ calls[c].pc = "failed" /\ calls[c].error = "RelayRejected"
  /\ ~calls[c].executed
  /\ CarriesForwarderNonce(calls[c].request)
  /\ ForwarderAccepts(forwarder, calls[c].signedNonce)
  /\ calls' = [calls EXCEPT ![c].executed = TRUE]
  /\ forwarder' = ForwarderExecute(forwarder, c, calls[c].signedNonce)
  /\ UNCHANGED <<options, browser, hasSigner, connection, chain, isValidContract, customOverrides, installs>>

------------------------------------------------------------------------------
(* Specification *)

GaslessOptions == { {}, {"openzeppelin"}, {"biconomy"}, {"openzeppelin", "biconomy"} }

OptionsSet ==
  { [gasless |-> g, speed |-> s, maxPriceInGwei |-> m] :
      g \in GaslessOptions, s \in {"fast"}, m \in {300} }

\* provider states: legacy network, EIP-1559 network, Polygon, no contract
ChainStates ==
  { [code |-> "0x60", chainId |-> Mainnet, maxFeePerGas |-> Null, maxPriorityFeePerGas |-> Null,
     baseFeePerGas |-> Null, gasPrice |-> 4000, gasStationFee |-> 0, permit |-> TRUE],
    [code |-> "0x60", chainId |-> Mainnet, maxFeePerGas |-> 30000, maxPriorityFeePerGas |-> 2000,
     baseFeePerGas |-> 10000, gasPrice |-> 12000, gasStationFee |-> 0, permit |-> TRUE],
    [code |-> "0x60", chainId |-> Polygon, maxFeePerGas |-> 30000, maxPriorityFeePerGas |-> 2000,
     baseFeePerGas |-> Null, gasPrice |-> 12000, gasStationFee |-> 31000, permit |-> TRUE],
    [code |-> "0x", chainId |-> Mainnet, maxFeePerGas |-> Null, maxPriorityFeePerGas |-> Null,
     baseFeePerGas |-> Null, gasPrice |-> 4000, gasStationFee |-> 0, permit |-> TRUE] }

Init ==
  /\ options \in OptionsSet
  /\ browser \in BOOLEAN
  /\ hasSigner \in BOOLEAN
  /\ chain \in ChainStates
  /\ connection = Connected(IF hasSigner THEN 1 ELSE NoSigner, ContractAddress)
  /\ forwarder = NewForwarder
  /\ isValidContract = FALSE
  /\ customOverrides = [overrides |-> EmptyOverrides, install |-> 0]
  /\ installs = 0
  /\ calls = [c \in Calls |-> NewCall]

Next ==
  \/ \E h \in HookResults : withTransactionOverride(h)
  \/ \E c \in Calls, f \in FunctionCalls, co \in CallOverridesArgs : sendTransaction(c, f, co)
  \/ \E c \in Calls : CodeReturned(c)
  \/ \E c \in Calls, ok \in BOOLEAN : FeeDataReturned(c, ok)
  \/ \E c \in Calls : FeeChainIdReturned(c)
  \/ \E c \in Calls : BlockReturned(c)
  \/ \E c \in Calls, r \in OracleResults : GasStationReturned(c, r)
  \/ \E c \in Calls : GasPriceReturned(c)
  \/ \E c \in Calls : BrowserOverridesReturned(c)
  \/ \E c \in Calls, ok \in BOOLEAN : BroadcastReturned(c, ok)
  \/ \E c \in Calls, ok \in BOOLEAN : ReceiptReturned(c, ok)
  \/ \E c \in Calls : GlChainIdReturned(c)
  \/ \E c \in Calls : GlSignerAddressReturned(c)
  \/ \E c \in Calls, ok \in BOOLEAN, g \in GasEstimates : GasEstimated(c, ok, g)
  \/ \E c \in Calls : NonceRead(c)
  \/ \E c \in Calls, ok \in BOOLEAN : Signed(c, ok)
  \/ \E c \in Calls, resp \in RelayResponses : RelayResponded(c, resp)
  \/ \E c \in Calls, ok \in BOOLEAN : TransactionMined(c, ok)

Spec == Init /\ [][Next]_vars

------------------------------------------------------------------------------
(* One call with every kind of function call, on targets with and without   *)
(* EIP-2612 permit support.                                                  *)

\* the functions and argument counts of the call
RelayFunctionCalls ==
  { [fn |-> "approve", nargs |-> 2], [fn |-> "approve", nargs |-> 1],
    [fn |-> "approve", nargs |-> 3], [fn |-> "transfer", nargs |-> 2],
    [fn |-> "multicall", nargs |-> 1] }

\* a target without permit support, such as an ERC-721 contract
NoPermitChainStates ==
  { [code |-> "0x60", chainId |-> Mainnet, maxFeePerGas |-> Null, maxPriorityFeePerGas |-> Null,
     baseFeePerGas |-> Null, gasPrice |-> 4000, gasStationFee |-> 0, permit |-> FALSE] }

InitRelay ==
  /\ options \in OptionsSet
  /\ browser \in BOOLEAN
  /\ hasSigner \in BOOLEAN
  /\ chain \in ChainStates \cup NoPermitChainStates
  /\ connection = Connected(IF hasSigner THEN 1 ELSE NoSigner, ContractAddress)
  /\ forwarder = NewForwarder
  /\ isValidContract = FALSE
  /\ customOverrides = [overrides |-> EmptyOverrides, install |-> 0]
  /\ installs = 0
  /\ calls = [c \in Calls |-> NewCall]

NextRelay ==
  \/ \E h \in HookResults : withTransactionOverride(h)
  \/ \E f \in RelayFunctionCalls, co \in CallOverridesArgs : sendTransaction(1, f, co)
  \/ CodeReturned(1)
  \/ \E ok \in BOOLEAN : FeeDataReturned(1, ok)
  \/ FeeChainIdReturned(1)
  \/ BlockReturned(1)
  \/ \E r \in OracleResults : GasStationReturned(1, r)
  \/ GasPriceReturned(1)
  \/ BrowserOverridesReturned(1)
  \/ \E ok \in BOOLEAN : BroadcastReturned(1, ok)
  \/ \E ok \in BOOLEAN : ReceiptReturned(1, ok)
  \/ GlChainIdReturned(1)
  \/ GlSignerAddressReturned(1)
  \/ \E ok \in BOOLEAN, g \in RelayGasEstimates : GasEstimated(1, ok, g)
  \/ NonceRead(1)
  \/ \E ok \in BOOLEAN : Signed(1, ok)
  \/ \E resp \in RelayResponses : RelayResponded(1, resp)
  \/ \E ok \in BOOLEAN : TransactionMined(1, ok)

SpecRelay == InitRelay /\ [][NextRelay]_vars

------------------------------------------------------------------------------
(* One direct call without callOverrides outside a browser, over every      *)
(* speed tier, ceilings on both sides of the 2.5 gwei floor, and a range of  *)
(* network fees.                                                             *)

\* gasSettings.maxPriceInGwei
FeeCeilings == {1, 2, 3, 300}

FeeOptionsSet ==
  { [gasless |-> {}, speed |-> s, maxPriceInGwei |-> m] : s \in Speeds, m \in FeeCeilings }

\* fees and prices the provider or the gas station reports, in wei
FeePrices ==
  { 0, 1, ParseGwei(1), ParseGwei(2), ParseGwei(2) + 150, ParseGwei(3) - 1,
    ParseGwei(31), ParseGwei(300), ParseGwei(400) }

\* block.baseFeePerGas
FeeBaseFees == {Null, ParseGwei(10)}

FeeChainStates ==
  { [code |-> "0x60", chainId |-> Mainnet, maxFeePerGas |-> Null, maxPriorityFeePerGas |-> Null,
     baseFeePerGas |-> Null, gasPrice |-> g, gasStationFee |-> 0, permit |-> TRUE] :
       g \in FeePrices }
  \cup
  { [code |-> "0x60", chainId |-> Mainnet, maxFeePerGas |-> ParseGwei(30), maxPriorityFeePerGas |-> d,
     baseFeePerGas |-> b, gasPrice |-> ParseGwei(12), gasStationFee |-> 0, permit |-> TRUE] :
       d \in FeePrices, b \in FeeBaseFees }
  \cup
  { [code |-> "0x60", chainId |-> Polygon, maxFeePerGas |-> ParseGwei(30), maxPriorityFeePerGas |-> ParseGwei(2),
     baseFeePerGas |-> b, gasPrice |-> ParseGwei(12), gasStationFee |-> d, permit |-> TRUE] :
       d \in FeePrices, b \in FeeBaseFees }

\* sendTransaction(fn, args) with callOverrides omitted
OmittedCallOverrides == {[given |-> FALSE, callOverrides |-> EmptyOverrides]}

InitFee ==
  /\ options \in FeeOptionsSet
  /\ browser = FALSE
  /\ hasSigner = TRUE
  /\ chain \in FeeChainStates
  /\ connection = Connected(IF hasSigner THEN 1 ELSE NoSigner, ContractAddress)
  /\ forwarder = NewForwarder
  /\ isValidContract = FALSE
  /\ customOverrides = [overrides |-> EmptyOverrides, install |-> 0]
  /\ installs = 0
  /\ calls = [c \in Calls |-> NewCall]

NextFee ==
  \/ \E f \in FunctionCalls, co \in OmittedCallOverrides : sendTransaction(1, f, co)
  \/ CodeReturned(1)
  \/ \E ok \in BOOLEAN : FeeDataReturned(1, ok)
  \/ FeeChainIdReturned(1)
  \/ BlockReturned(1)
  \/ \E r \in OracleResults : GasStationReturned(1, r)
  \/ GasPriceReturned(1)
  \/ \E ok \in BOOLEAN : BroadcastReturned(1, ok)
  \/ \E ok \in BOOLEAN : ReceiptReturned(1, ok)

SpecFee == InitFee /\ [][NextFee]_vars

\* the FeeStrategy inside and outside a browser, for every tier and ceiling
InitBrowser ==
  /\ options \in FeeOptionsSet
  /\ browser \in BOOLEAN
  /\ hasSigner = TRUE
  /\ chain \in FeeChainStates
  /\ connection = Connected(IF hasSigner THEN 1 ELSE NoSigner, ContractAddress)
  /\ forwarder = NewForwarder
  /\ isValidContract = FALSE
  /\ customOverrides = [overrides |-> EmptyOverrides, install |-> 0]
  /\ installs = 0
  /\ calls = [c \in Calls |-> NewCall]

NextBrowser ==
  \/ NextFee
  \/ BrowserOverridesReturned(1)

SpecBrowser == InitBrowser /\ [][NextBrowser]_vars

------------------------------------------------------------------------------
(* Two gasless calls of one sender with explicit callOverrides, against the *)
(* forwarder of either backend.                                              *)

NonceOptionsSet ==
  { [gasless |-> g, speed |-> "fast", maxPriceInGwei |-> 300] :
      g \in {{"openzeppelin"}, {"biconomy"}} }

\* sendTransaction(fn, args, {gasPrice})
NonceCallOverrides == {[given |-> TRUE, callOverrides |-> [f \in {"gasPrice"} |-> 7]]}

NonceChainStates ==
  { [code |-> "0x60", chainId |-> Mainnet, maxFeePerGas |-> Null, maxPriorityFeePerGas |-> Null,
     baseFeePerGas |-> Null, gasPrice |-> 4000, gasStationFee |-> 0, permit |-> TRUE] }

InitNonce ==
  /\ options \in NonceOptionsSet
  /\ browser = FALSE
  /\ hasSigner = TRUE
  /\ connection = Connected(1, ContractAddress)
  /\ chain \in NonceChainStates
  /\ forwarder = NewForwarder
  /\ isValidContract = FALSE
  /\ customOverrides = [overrides |-> EmptyOverrides, install |-> 0]
  /\ installs = 0
  /\ calls = [c \in Calls |-> NewCall]

NextNonce ==
  \/ \E c \in Calls, f \in FunctionCalls, co \in NonceCallOverrides : sendTransaction(c, f, co)
  \/ \E c \in Calls : CodeReturned(c)
  \/ \E c \in Calls : GlChainIdReturned(c)
  \/ \E c \in Calls : GlSignerAddressReturned(c)
  \/ \E c \in Calls, ok \in BOOLEAN, g \in GasEstimates : GasEstimated(c, ok, g)
  \/ \E c \in Calls : NonceRead(c)
  \/ \E c \in Calls, ok \in BOOLEAN : Signed(c, ok)
  \/ \E c \in Calls, resp \in RelayResponses : RelayResponded(c, resp)
  \/ \E c \in Calls, ok \in BOOLEAN : TransactionMined(c, ok)
  \/ \E c \in Calls : ForwarderAdvanced(c)

SpecNonce == InitNonce /\ [][NextNonce]_vars

------------------------------------------------------------------------------
(* Calls with explicit callOverrides on either path, while the wrapper is   *)
(* connected to one signer after another.                                    *)

SignerOptionsSet ==
  { [gasless |-> g, speed |-> "fast", maxPriceInGwei |-> 300] : g \in {{}, {"openzeppelin"}} }

InitSigner ==
  /\ options \in SignerOptionsSet
  /\ browser = FALSE
  /\ hasSigner = TRUE
  /\ connection = Connected(1, ContractAddress)
  /\ chain \in NonceChainStates
  /\ forwarder = NewForwarder
  /\ isValidContract = FALSE
  /\ customOverrides = [overrides |-> EmptyOverrides, install |-> 0]
  /\ installs = 0
  /\ calls = [c \in Calls |-> NewCall]

NextSigner ==
  \/ \E w \in Wallets : updateSignerOrProvider(w)
  \/ \E c \in Calls, f \in FunctionCalls, co \in NonceCallOverrides : sendTransaction(c, f, co)
  \/ \E c \in Calls : CodeReturned(c)
  \/ \E c \in Calls, ok \in BOOLEAN : BroadcastReturned(c, ok)
  \/ \E c \in Calls, ok \in BOOLEAN : ReceiptReturned(c, ok)
  \/ \E c \in Calls : GlChainIdReturned(c)
  \/ \E c \in Calls : GlSignerAddressReturned(c)
  \/ \E c \in Calls, ok \in BOOLEAN, g \in GasEstimates : GasEstimated(c, ok, g)
  \/ \E c \in Calls : NonceRead(c)
  \/ \E c \in Calls, ok \in BOOLEAN : Signed(c, ok)
  \/ \E c \in Calls, resp \in RelayResponses : RelayResponded(c, resp)
  \/ \E c \in Calls, ok \in BOOLEAN : TransactionMined(c, ok)

SpecSigner == InitSigner /\ [][NextSigner]_vars

\* direct calls with explicit overrides on a wrapper whose provider is replaced
ValidityOptionsSet == {[gasless |-> {}, speed |-> "fast", maxPriceInGwei |-> 300]}

InitValidity ==
  /\ options \in ValidityOptionsSet
  /\ browser = FALSE
  /\ hasSigner = TRUE
  /\ connection = Connected(1, ContractAddress)
  /\ chain \in ChainStates
  /\ forwarder = NewForwarder
  /\ isValidContract = FALSE
  /\ customOverrides = [overrides |-> EmptyOverrides, install |-> 0]
  /\ installs = 0
  /\ calls = [c \in Calls |-> NewCall]

NextValidity ==
  \/ \E p \in Providers : updateSignerOrProviderToProvider(p)
  \/ \E w \in Wallets : updateSignerOrProvider(w)
  \/ \E c \in Calls, f \in FunctionCalls, co \in NonceCallOverrides : sendTransaction(c, f, co)
  \/ \E c \in Calls : CodeReturned(c)
  \/ \E c \in Calls, ok \in BOOLEAN : BroadcastReturned(c, ok)
  \/ \E c \in Calls, ok \in BOOLEAN : ReceiptReturned(c, ok)

SpecValidity == InitValidity /\ [][NextValidity]_vars

------------------------------------------------------------------------------
(* Properties *)

Has(rec, op) == \E i \in DOMAIN rec.trace : rec.trace[i] = op
Before(rec, a, b) ==
  \E i \in DOMAIN rec.trace :
    rec.trace[i] = a /\ \E j \in (i + 1)..Len(rec.trace) : rec.trace[j] = b
Count(rec, op) == Cardinality({i \in DOMAIN rec.trace : rec.trace[i] = op})

\* C1: on the direct path "completed" is emitted only after the mined receipt
\* has been obtained, and "submitted" is emitted before both.
C1_CompletedAfterReceipt ==
  \A c \in Calls :
    (calls[c].path = "direct" /\ Has(calls[c], "txCompleted"))
      => /\ Before(calls[c], "receipt", "txCompleted")
         /\ Before(calls[c], "txSubmitted", "receipt")
         /\ Before(calls[c], "txSubmitted", "txCompleted")

C3_EventsArePrefix ==
  \A c \in Calls :
    \E h \in {Hash(d) : d \in Calls} :
      /\ h # Undefined
      /\ Len(calls[c].txEvents) <= 2
      /\ \A i \in DOMAIN calls[c].txEvents :
            calls[c].txEvents[i] =
              [status |-> IF i = 1 THEN "submitted" ELSE "completed", transactionHash |-> h]

\* C4: a target without code makes sendTransaction fail with the
\* not-a-contract error right after the code fetch: no other request is
\* issued and no event is emitted.
C4_NotAContractFailsFirst ==
  \A c \in Calls :
    /\ (chain.code = "0x" /\ calls[c].pc \notin {"idle", "getCode"})
          => calls[c].pc = "failed" /\ calls[c].error = "NotAContract"
    /\ calls[c].error = "NotAContract"
          => /\ calls[c].trace = <<"getCode">>
             /\ calls[c].txEvents = <<>>
             /\ ~calls[c].merged

C4_Witness ==
  \E c \in Calls :
    /\ calls[c].pc = "failed" /\ calls[c].error = "NotAContract"
    /\ GaslessConfigured(options) /\ hasSigner /\ ~browser

\* some call has passed the validity check
PassedCheck ==
  \E c \in Calls :
    Has(calls[c], "getCode") /\ calls[c].pc # "getCode" /\ calls[c].error # "NotAContract"

FeeStrategyResult(c) ==
  IF browser THEN EmptyOverrides
  ELSE IF chain.maxFeePerGas = Null \/ chain.maxPriorityFeePerGas = Null
       THEN OverridesLegacy(options, chain)
       ELSE Overrides1559(options, chain,
              IF chain.chainId \in {Polygon, Mumbai}
              THEN getPolygonGasPriorityFee(chain, calls[c].oracle)
              ELSE chain.maxPriorityFeePerGas)

\* C7: the overrides used are the resolved overrides (the caller's, else the
\* FeeStrategy result) with every field of the custom override replacing or
\* adding to them, and every other field unchanged.
C7_MergeFieldByField ==
  \A c \in Calls :
    calls[c].merged =>
      LET used == calls[c].callOverrides
          custom == calls[c].custom
          resolved == IF calls[c].given THEN calls[c].argOverrides ELSE FeeStrategyResult(c)
      IN /\ DOMAIN used = (DOMAIN resolved) \cup (DOMAIN custom)
         /\ \A f \in DOMAIN custom : used[f] = custom[f]
         /\ \A f \in (DOMAIN resolved) \ (DOMAIN custom) : used[f] = resolved[f]

C7_Witness ==
  \E c \in Calls :
    /\ calls[c].merged /\ calls[c].pc = "done"
    /\ \E f \in DOMAIN calls[c].custom :
          f \in DOMAIN calls[c].resolved /\ calls[c].resolved[f] # calls[c].custom[f]
    /\ (DOMAIN calls[c].resolved) \ (DOMAIN calls[c].custom) # {}

\* C8: the call that reads an installed hook resets it in the same step, and
\* no other call has applied or will apply the same install.
C8_HookConsumedOnce ==
  [][\A c \in Calls :
       (~calls[c].merged /\ calls'[c].merged)
         => /\ calls'[c].appliedHook = customOverrides.install
            /\ calls'[c].custom = customOverrides.overrides
            /\ customOverrides'.install = 0
            /\ customOverrides'.overrides = EmptyOverrides
            /\ \A d \in Calls \ {c} :
                 calls'[c].appliedHook # 0 => calls'[d].appliedHook # calls'[c].appliedHook]_vars

C8_Witness ==
  \E c, d \in Calls :
    /\ c # d
    /\ calls[c].merged /\ calls[d].merged
    /\ calls[c].appliedHook # 0 /\ calls[d].appliedHook = 0
    /\ installs = 1
    /\ calls[c].pc \notin {"done", "failed"} /\ calls[d].pc \notin {"done", "failed"}

ExactlyOneShape(o) ==
  \/ HasLegacyShape(o) /\ ~HasAny1559Field(o)
  \/ Has1559Shape(o) /\ ~HasLegacyShape(o)

\* C9 as claimed: the overrides a transaction is executed with always carry
\* exactly one fee-field shape.
C9_AlwaysOneShape ==
  \A c \in Calls : calls[c].merged => ExactlyOneShape(calls[c].callOverrides)

\* C9: the FeeStrategy result carries exactly one fee-field shape outside a
\* browser and none in a browser; the executed overrides carry exactly one
\* shape when the caller gave no callOverrides, the context is no browser and
\* the custom override has no fee field.
C9_OneShapeWhenResolved ==
  \A c \in Calls :
    (calls[c].merged /\ ~calls[c].given) =>
      /\ browser => (DOMAIN calls[c].resolved) \cap FeeFields = {}
      /\ ~browser => ExactlyOneShape(calls[c].resolved)
      /\ (~browser /\ (DOMAIN calls[c].custom) \cap FeeFields = {})
            => ExactlyOneShape(calls[c].callOverrides)

C9_Witness ==
  \E c, d \in Calls :
    /\ calls[c].merged /\ ~calls[c].given /\ ~browser
    /\ Has1559Shape(calls[c].callOverrides) /\ calls[c].appliedHook # 0
    /\ calls[d].merged /\ ~ExactlyOneShape(calls[d].callOverrides)

\* C10 as claimed: the gasless path is taken exactly when a backend is
\* configured and the merged overrides carry no non-zero value; with a
\* non-zero value the call runs on the direct path.
C10_PathByValue ==
  \A c \in Calls :
    calls[c].path # "none" =>
      (calls[c].path = "gasless"
         <=> (GaslessConfigured(options) /\ ValueOf(calls[c].callOverrides) = 0))

\* C10: the gasless path is taken exactly when a backend is configured; a
\* gasless call whose merged overrides carry a non-zero value fails with the
\* unsupported-value error and is never sent on the direct path.
C10_PathByConfiguration ==
  \A c \in Calls :
    calls[c].path # "none" =>
      /\ calls[c].path = "gasless" <=> GaslessConfigured(options)
      /\ (GaslessConfigured(options) /\ ValueOf(calls[c].callOverrides) > 0) =>
            /\ calls[c].pc \in {"glChainId", "glSignerAddress", "failed"}
            /\ calls[c].pc = "failed" => calls[c].error \in {"NoSigner", "UnsupportedValue"}
            /\ \A op \in {"contractCall", "broadcast", "estimateGas", "signRequest", "relayPost"} :
                 ~Has(calls[c], op)
            /\ calls[c].txEvents = <<>>

C10_Witness ==
  \E c, d \in Calls :
    /\ calls[c].path = "gasless" /\ ValueOf(calls[c].callOverrides) > 0
    /\ calls[c].pc = "failed" /\ calls[c].error = "UnsupportedValue"
    /\ calls[d].path = "gasless" /\ calls[d].pc = "done"

\* C11 as claimed: a gasless call with a non-zero value fails with the
\* unsupported-value error before the chain id query, the signer address
\* query, gas estimation, nonce read, signing and relay POST of payload
\* building, and emits no event.
C11_ValueRejectedBeforeQueries ==
  \A c \in Calls :
    (calls[c].path = "gasless" /\ ValueOf(calls[c].callOverrides) > 0
       /\ hasSigner /\ calls[c].pc = "failed")
      => /\ calls[c].error = "UnsupportedValue"
         /\ \A op \in {"getSignerAddress", "estimateGas", "getNonce", "signRequest", "relayPost"} :
              ~Has(calls[c], op)
         /\ calls[c].sigEvents = <<>> /\ calls[c].txEvents = <<>>

C13_PermitOnlyIfSupported ==
  \A c \in Calls :
    (calls[c].path = "gasless" /\ Backend(options) = "openzeppelin" /\ ~chain.permit
       /\ Has(calls[c], "signRequest"))
      => /\ calls[c].signed.kind = "ForwardRequest"
         /\ Has(calls[c], "relayPost") => calls[c].messageType = "forward"

\* C14 as claimed: the signature event "submitted" precedes the signature
\* request and "completed" follows it, and both events carry the message that
\* was signed and sent to the relay.
C14_SignatureEventsCarrySignedMessage ==
  \A c \in Calls :
    /\ Has(calls[c], "signRequest") =>
         /\ Before(calls[c], "sigSubmitted", "signRequest")
         /\ calls[c].sigEvents[1] = [status |-> "submitted", message |-> calls[c].signed]
    /\ Has(calls[c], "sigCompleted") =>
         /\ Before(calls[c], "signRequest", "sigCompleted")
         /\ calls[c].sigEvents[2] = [status |-> "completed", message |-> calls[c].signed]
         /\ calls[c].sigEvents[1].message = calls[c].sigEvents[2].message
         /\ calls[c].request = calls[c].signed

\* C15 as claimed: on the forwarder backend a 200 response without result or
\* whose result has no txHash makes the call fail with a relay error, and no
\* "submitted" transaction event is emitted.
C15_DefenderNeedsTxHash ==
  \A c \in Calls :
    (calls[c].path = "gasless" /\ Backend(options) = "openzeppelin") =>
      /\ Has(calls[c], "relayReturned") => calls[c].response = "txHash"
      /\ calls[c].response \in {"noTxHash", "emptyBody"} =>
           /\ calls[c].pc = "failed" /\ calls[c].error = "RelayRejected"
           /\ calls[c].txEvents = <<>>

C17_NoRetry ==
  \A c \in Calls :
    /\ Count(calls[c], "getNonce") <= 1
    /\ Count(calls[c], "signRequest") <= 1
    /\ Count(calls[c], "relayPost") + Count(calls[c], "contractCall") <= 1
    /\ Count(calls[c], "broadcast") <= 1

C17_Witness ==
  /\ calls[1].pc = "failed" /\ calls[1].error = "RelayRejected"
  /\ Count(calls[1], "getNonce") = 1 /\ Count(calls[1], "signRequest") = 1
  /\ Count(calls[1], "relayPost") = 1

\* the call resolved its overrides on the EIP-1559 branch of getCallOverrides
ResolvedOn1559(c) == calls[c].merged /\ ~calls[c].given /\ Has(calls[c], "getBlock")

\* the call resolved its overrides on the legacy branch of getCallOverrides
ResolvedOnLegacy(c) == calls[c].merged /\ ~calls[c].given /\ Has(calls[c], "getGasPrice")

\* the default priority fee the call passed to getPreferredPriorityFee
DefaultPriorityFee(c) == calls[c].defaultPriorityFee

\* C18 as claimed: on the EIP-1559 path the resolved maxPriorityFeePerGas is
\* at least the 2.5 gwei floor and at most the configured ceiling, for every
\* tier, default priority fee and ceiling, ceilings below 2.5 gwei included.
C18_PriorityFeeWithinFloorAndCeiling ==
  \A c \in Calls :
    ResolvedOn1559(c) =>
      /\ calls[c].resolved["maxPriorityFeePerGas"] >= MinPriorityFee
      /\ calls[c].resolved["maxPriorityFeePerGas"] <= ParseGwei(options.maxPriceInGwei)

\* C18: on the EIP-1559 path the resolved maxPriorityFeePerGas is always at
\* least the 2.5 gwei floor; it is at most the configured ceiling when the
\* ceiling is at least 2.5 gwei, and it is exactly the floor, above the
\* ceiling, when the ceiling is below 2.5 gwei.
C18_PriorityFeeFloorWins ==
  \A c \in Calls :
    ResolvedOn1559(c) =>
      /\ calls[c].resolved["maxPriorityFeePerGas"] >= MinPriorityFee
      /\ ParseGwei(options.maxPriceInGwei) >= MinPriorityFee
           => calls[c].resolved["maxPriorityFeePerGas"] <= ParseGwei(options.maxPriceInGwei)
      /\ ParseGwei(options.maxPriceInGwei) < MinPriorityFee
           => calls[c].resolved["maxPriorityFeePerGas"] = MinPriorityFee

C18_Witness ==
  \E c \in Calls :
    /\ ResolvedOn1559(c)
    /\ DefaultPriorityFee(c) > MinPriorityFee
    /\ ParseGwei(options.maxPriceInGwei) < MinPriorityFee
    /\ calls[c].resolved["maxPriorityFeePerGas"] = MinPriorityFee
    /\ calls[c].resolved["maxPriorityFeePerGas"] > ParseGwei(options.maxPriceInGwei)

\* the largest surcharge a tier adds to the network gas price
MaxSurcharge(gasPrice) == IF (gasPrice \div 100) * 10 > 1 THEN (gasPrice \div 100) * 10 ELSE 1

\* C19 as claimed: on the legacy path the resolved gasPrice is at most the
\* configured ceiling and is not raised by a lower clamp, and for the
\* "standard" tier it is exactly the network gas price plus 1 wei.
C19_StandardAddsOneWei ==
  \A c \in Calls :
    ResolvedOnLegacy(c) =>
      /\ calls[c].resolved["gasPrice"] <= ParseGwei(options.maxPriceInGwei)
      /\ calls[c].resolved["gasPrice"] <= chain.gasPrice + MaxSurcharge(chain.gasPrice)
      /\ options.speed = "standard" => calls[c].resolved["gasPrice"] = chain.gasPrice + 1

\* C19: on the legacy path the resolved gasPrice is at most the configured
\* ceiling and is not raised by a lower clamp; for the "standard" tier it is
\* the network gas price plus 1 wei when that is within the ceiling, and the
\* ceiling otherwise.
C19_StandardAddsOneWeiUnderCeiling ==
  \A c \in Calls :
    ResolvedOnLegacy(c) =>
      /\ calls[c].resolved["gasPrice"] <= ParseGwei(options.maxPriceInGwei)
      /\ calls[c].resolved["gasPrice"] <= chain.gasPrice + MaxSurcharge(chain.gasPrice)
      /\ (options.speed = "standard" /\ chain.gasPrice + 1 <= ParseGwei(options.maxPriceInGwei))
           => calls[c].resolved["gasPrice"] = chain.gasPrice + 1
      /\ (options.speed = "standard" /\ chain.gasPrice + 1 > ParseGwei(options.maxPriceInGwei))
           => calls[c].resolved["gasPrice"] = ParseGwei(options.maxPriceInGwei)

C19_Witness ==
  \E c \in Calls :
    /\ ResolvedOnLegacy(c)
    /\ options.speed = "standard"
    /\ chain.gasPrice + 1 > ParseGwei(options.maxPriceInGwei)
    /\ calls[c].resolved["gasPrice"] = ParseGwei(options.maxPriceInGwei)
    /\ calls[c].resolved["gasPrice"] < chain.gasPrice + 1

\* C20: on the EIP-1559 path maxFeePerGas = 2 * baseFee + maxPriorityFeePerGas,
\* where baseFee is the latest block's base fee, or 1 gwei when the block has
\* none, and maxPriorityFeePerGas is the clamped priority fee; with base fee
\* 10 gwei, default priority fee 2 gwei and tier "standard" the result is
\* maxPriorityFeePerGas = 2.5 gwei and maxFeePerGas = 22.5 gwei.
C20_MaxFeeFormula ==
  \A c \in Calls :
    ResolvedOn1559(c) =>
      LET baseFee == IF chain.baseFeePerGas = Null THEN ParseGwei(1) ELSE chain.baseFeePerGas
          fees == calls[c].resolved
      IN /\ fees["maxPriorityFeePerGas"] = getPreferredPriorityFee(options, DefaultPriorityFee(c))
         /\ fees["maxFeePerGas"] = 2 * baseFee + fees["maxPriorityFeePerGas"]
         /\ (/\ chain.baseFeePerGas = ParseGwei(10)
             /\ DefaultPriorityFee(c) = ParseGwei(2)
             /\ options.speed = "standard")
              => /\ fees["maxPriorityFeePerGas"] = (25 * GweiUnit) \div 10
                 /\ fees["maxFeePerGas"] = (225 * GweiUnit) \div 10

C20_Witness ==
  \E c \in Calls :
    /\ ResolvedOn1559(c)
    /\ chain.baseFeePerGas = ParseGwei(10)
    /\ chain.maxPriorityFeePerGas = ParseGwei(2)
    /\ chain.chainId = Mainnet
    /\ options.speed = "standard"
    /\ calls[c].resolved["maxFeePerGas"] = (225 * GweiUnit) \div 10

\* C21 as claimed: where no clamp applies, the "fast" tier adds
\* floor(base * 5 / 100) and the "fastest" tier floor(base * 10 / 100) to the
\* base value (the default priority fee on the EIP-1559 path, the network gas
\* price on the legacy path), also for base values that are no multiples of 100.
C21_SurchargeIsExactPercentage ==
  \A c \in Calls :
    LET percent == IF options.speed = "fast" THEN 5 ELSE 10
        ceiling == ParseGwei(options.maxPriceInGwei)
    IN options.speed \in {"fast", "fastest"} =>
         /\ (ResolvedOnLegacy(c) /\ calls[c].resolved["gasPrice"] < ceiling)
              => calls[c].resolved["gasPrice"] - chain.gasPrice
                   = (chain.gasPrice * percent) \div 100
         /\ (/\ ResolvedOn1559(c)
             /\ calls[c].resolved["maxPriorityFeePerGas"] < ceiling
             /\ calls[c].resolved["maxPriorityFeePerGas"] > MinPriorityFee)
              => calls[c].resolved["maxPriorityFeePerGas"] - DefaultPriorityFee(c)
                   = (DefaultPriorityFee(c) * percent) \div 100

\* C22: the gas limit of the GaslessTransaction is twice the raw estimate
\* when the estimate is at least 25000 and 500000 when it is below 25000.
C22_GasLimitDoubledOrFallback ==
  \A c \in Calls :
    (calls[c].path = "gasless" /\ Has(calls[c], "getNonce")) =>
      /\ calls[c].gasEstimate >= 25000 => calls[c].gasLimit = 2 * calls[c].gasEstimate
      /\ calls[c].gasEstimate < 25000 => calls[c].gasLimit = 500000
      /\ calls[c].gasEstimate = 20000 => calls[c].gasLimit # 40000

C22_Witness ==
  \E c \in Calls :
    /\ calls[c].path = "gasless" /\ Has(calls[c], "relayPost")
    /\ calls[c].gasEstimate = 20000 /\ calls[c].gasLimit = 500000

\* the call has signed a request that carries the forwarder's nonce
SignedForwarderNonce(c) ==
  Has(calls[c], "sigCompleted") /\ CarriesForwarderNonce(calls[c].signed)

\* C23 as claimed: the nonces of all requests signed for the sender and the
\* forwarder, those of concurrently in-flight calls and of calls that follow
\* a failed relay submission included, are pairwise distinct and strictly
\* increasing in signing order.
C23_SignedNoncesStrictlyIncrease ==
  \A i, j \in DOMAIN forwarder.signedLog :
    i < j => forwarder.signedLog[i].nonce < forwarder.signedLog[j].nonce

\* C23: every signed nonce is the forwarder's nonce of the moment the call
\* read it, so signed nonces never exceed the forwarder's nonce and never
\* decrease in reading order, while two calls can sign the same nonce; the
\* nonces of the requests the forwarder executes are pairwise distinct and
\* strictly increasing in execution order.
C23_ExecutedNoncesStrictlyIncrease ==
  /\ \A i \in DOMAIN forwarder.signedLog : forwarder.signedLog[i].nonce <= forwarder.nonce
  /\ \A c \in Calls : SignedForwarderNonce(c) => calls[c].signedNonce = calls[c].executedBefore
  /\ \A i, j \in DOMAIN forwarder.executedLog :
       i < j => forwarder.executedLog[i].nonce < forwarder.executedLog[j].nonce

C23_Witness ==
  /\ Len(forwarder.signedLog) = 2
  /\ forwarder.signedLog[1].nonce = forwarder.signedLog[2].nonce
  /\ Len(forwarder.executedLog) = 1

C25_NonceAfterFailedRelay ==
  \A c, d \in Calls :
    (c \in calls[d].relayFailedBefore /\ SignedForwarderNonce(c) /\ SignedForwarderNonce(d)) =>
      /\ calls[d].signedNonce = calls[d].executedBefore
      /\ calls[d].executedBefore = calls[c].executedBefore
           => calls[d].signedNonce = calls[c].signedNonce
      /\ calls[d].executedBefore > calls[c].executedBefore
           => calls[d].signedNonce > calls[c].signedNonce
      /\ \A i \in 1..calls[d].executedBefore :
           forwarder.executedLog[i].nonce # calls[d].signedNonce

C25_Witness ==
  \E c, d \in Calls :
    /\ c \in calls[d].relayFailedBefore
    /\ SignedForwarderNonce(c) /\ SignedForwarderNonce(d)
    /\ calls[c].executed /\ calls[d].executedBefore = 1
    /\ calls[d].signedNonce = calls[c].signedNonce + 1

\* the failed call's nonce is signed again when the forwarder did not advance
C25_WitnessSameNonce ==
  \E c, d \in Calls :
    /\ c \in calls[d].relayFailedBefore
    /\ SignedForwarderNonce(c) /\ SignedForwarderNonce(d)
    /\ ~calls[c].executed
    /\ calls[d].signedNonce = calls[c].signedNonce

\* C26: two calls of the sender that are in flight together can sign the
\* same nonce, and of two requests with the same nonce the forwarder executes
\* at most one.
C26_SameNonceExecutedOnce ==
  \A c, d \in Calls :
    (c # d /\ SignedForwarderNonce(c) /\ SignedForwarderNonce(d)
       /\ calls[c].signedNonce = calls[d].signedNonce)
      => ~(calls[c].executed /\ calls[d].executed)

C26_Witness ==
  \E c, d \in Calls :
    /\ c # d
    /\ calls[d].relayFailedBefore = {} /\ calls[c].relayFailedBefore = {}
    /\ SignedForwarderNonce(c) /\ SignedForwarderNonce(d)
    /\ calls[c].signedNonce = calls[d].signedNonce
    /\ calls[c].pc = "done" /\ calls[c].executed
    /\ calls[d].pc = "done" /\ ~calls[d].executed

\* C27: a gasless call on a wrapper without a signer fails with the no-signer
\* error before gas estimation, nonce read, signature event and relay POST,
\* and emits no transaction event; it fails before the chain id query of
\* sendGaslessTransaction too.
C27_NoSignerFailsFirst ==
  \A c \in Calls :
    (calls[c].path = "gasless" /\ ~hasSigner) =>
      /\ calls[c].pc = "failed" /\ calls[c].error = "NoSigner"
      /\ \A op \in {"estimateGas", "getNonce", "sigSubmitted", "signRequest", "relayPost"} :
           ~Has(calls[c], op)
      /\ calls[c].txEvents = <<>> /\ calls[c].sigEvents = <<>>
      /\ calls[c].given => ~Has(calls[c], "getNetwork")

C27_Witness ==
  \E c \in Calls :
    /\ calls[c].path = "gasless" /\ ~hasSigner
    /\ calls[c].pc = "failed" /\ calls[c].error = "NoSigner"
    /\ Has(calls[c], "getCode")

C29_LatestSignerSigns ==
  /\ connection.signer = connection.supplied
  /\ connection.writeContract.signer = connection.supplied
  /\ connection.writeContract.address = ContractAddress
  /\ connection.readContract.address = ContractAddress
  /\ \A c \in Calls :
       (calls[c].pc # "idle" /\ calls[c].startedAt = connection.updates) =>
         /\ calls[c].from \in {NoSigner, connection.supplied}
         /\ calls[c].signedBy \in {NoSigner, connection.supplied}

C29_Witness ==
  \E c, d \in Calls :
    /\ connection.updates = 2 /\ connection.supplied = 1
    /\ calls[c].startedAt = 1 /\ calls[c].signedBy = 2 /\ calls[c].pc = "done"
    /\ calls[d].startedAt = 2 /\ calls[d].signedBy = 1 /\ calls[d].pc = "done"

\* the backend whose request the call signed or posted
UsedBiconomy(rec) == rec.signed.kind = "hashToSign" \/ rec.request.kind = "hashToSign"
UsedForwarder(rec) ==
  \/ rec.signed.kind \in {"ForwardRequest", "PermitRequest"}
  \/ rec.request.kind \in {"ForwardRequest", "PermitRequest"}

\* C30: a gasless call uses exactly one backend, chosen by the options alone:
\* Biconomy whenever the gasless options have the key "biconomy", the
\* forwarder backend when they have "openzeppelin" only, and the direct path
\* when they have neither; two calls never use different backends.
C30_OneBackendByConfiguration ==
  /\ \A c \in Calls :
       calls[c].path # "none" =>
         /\ calls[c].path = "direct" <=> options.gasless \cap {"openzeppelin", "biconomy"} = {}
         /\ calls[c].path = "direct" => ~UsedBiconomy(calls[c]) /\ ~UsedForwarder(calls[c])
         /\ ~(UsedBiconomy(calls[c]) /\ UsedForwarder(calls[c]))
         /\ Has(calls[c], "signRequest") =>
              /\ UsedBiconomy(calls[c]) <=> "biconomy" \in options.gasless
              /\ UsedForwarder(calls[c]) <=> options.gasless = {"openzeppelin"}
  /\ \A c, d \in Calls :
       (Has(calls[c], "signRequest") /\ Has(calls[d], "signRequest"))
         => (UsedBiconomy(calls[c]) <=> UsedBiconomy(calls[d]))

C30_Witness ==
  \E c, d \in Calls :
    /\ c # d /\ options.gasless = {"openzeppelin", "biconomy"}
    /\ Has(calls[c], "relayPost") /\ calls[c].request.kind = "hashToSign"
    /\ Has(calls[d], "relayPost") /\ calls[d].request.kind = "hashToSign"

\* the stages of the gasless path, in the order of the code
GaslessStages ==
  <<"estimateGas", "getNonce", "sigSubmitted", "signRequest", "sigCompleted", "relayPost",
    "txSubmitted">>

\* the stages the call has run are an initial part of GaslessStages, in order
StagesInOrder(rec) ==
  \A i, j \in DOMAIN GaslessStages :
    (i < j /\ Has(rec, GaslessStages[j])) => Before(rec, GaslessStages[i], GaslessStages[j])

\* none of the stages after the i-th has run
NoStageAfter(rec, i) ==
  \A j \in DOMAIN GaslessStages : j > i => ~Has(rec, GaslessStages[j])

\* the relay answered without a transaction hash
RelayRejection(rec) == rec.response \in {"noTxHash", "emptyBody", "httpError"}

\* C31: the gasless path runs gas estimation, nonce read, signature event
\* "submitted", signing, signature event "completed", relay POST and
\* transaction event "submitted" in this order; an estimation error, a
\* refused signature or a relay rejection ends the call with an error and no
\* later stage or event occurs.
C31_GaslessStagesInOrder ==
  \A c \in Calls :
    calls[c].path = "gasless" =>
      /\ StagesInOrder(calls[c])
      /\ calls[c].error = "EstimationFailed" => NoStageAfter(calls[c], 1)
      /\ calls[c].error = "SignatureFailed"
           => /\ Has(calls[c], "sigSubmitted") /\ NoStageAfter(calls[c], 4)
              /\ Len(calls[c].sigEvents) = 1
      /\ RelayRejection(calls[c])
           => /\ calls[c].pc = "failed" /\ calls[c].error = "RelayRejected"
              /\ NoStageAfter(calls[c], 6) /\ calls[c].txEvents = <<>>

\* the same without the rejection by a response that has no hash
C31_ExceptMissingHash ==
  \A c \in Calls :
    calls[c].path = "gasless" =>
      /\ StagesInOrder(calls[c])
      /\ calls[c].error = "EstimationFailed" => NoStageAfter(calls[c], 1)
      /\ calls[c].error = "SignatureFailed"
           => /\ Has(calls[c], "sigSubmitted") /\ NoStageAfter(calls[c], 4)
              /\ Len(calls[c].sigEvents) = 1
      /\ (RelayRejection(calls[c])
            /\ ~(Backend(options) = "openzeppelin" /\ calls[c].response = "noTxHash"))
           => /\ calls[c].pc = "failed" /\ calls[c].error = "RelayRejected"
              /\ NoStageAfter(calls[c], 6) /\ calls[c].txEvents = <<>>

\* the queries of the FeeStrategy
FeeQueries == {"getFeeData", "getBlock", "gasStation", "getGasPrice"}

\* C32: with explicit callOverrides the FeeStrategy is not consulted, no
\* fee-data, block, oracle or gas-price query is made, and the call uses the
\* caller's fields, changed only by the fields of a pending custom override.
C32_ExplicitOverridesSkipFeeStrategy ==
  \A c \in Calls :
    (calls[c].given /\ calls[c].pc # "idle") =>
      /\ \A q \in FeeQueries : ~Has(calls[c], q)
      /\ calls[c].pc \notin {"getFeeData", "feeChainId", "getBlock", "gasStation", "getGasPrice",
                             "browserOverrides"}
      /\ calls[c].merged =>
           /\ calls[c].resolved = calls[c].argOverrides
           /\ DOMAIN calls[c].callOverrides
                = (DOMAIN calls[c].argOverrides) \cup (DOMAIN calls[c].custom)
           /\ \A f \in DOMAIN calls[c].callOverrides :
                calls[c].callOverrides[f] =
                  IF f \in DOMAIN calls[c].custom THEN calls[c].custom[f]
                  ELSE calls[c].argOverrides[f]

C32_Witness ==
  \E c \in Calls :
    /\ calls[c].given /\ calls[c].pc = "done" /\ calls[c].appliedHook # 0
    /\ calls[c].callOverrides # calls[c].argOverrides
    /\ \E f \in DOMAIN calls[c].argOverrides :
         f \notin DOMAIN calls[c].custom /\ calls[c].callOverrides[f] = calls[c].argOverrides[f]

\* C33: in a browser context getCallOverrides returns empty overrides for
\* every speed tier and ceiling and makes no fee-data, chain id, block, oracle
\* or gas-price request.
C33_BrowserDefersToWallet ==
  \A c \in Calls :
    (browser /\ ~calls[c].given) =>
      /\ \A q \in FeeQueries \cup {"getNetwork"} : ~Has(calls[c], q)
      /\ calls[c].merged =>
           /\ calls[c].resolved = EmptyOverrides
           /\ calls[c].callOverrides = EmptyOverrides

C33_Witness ==
  /\ browser /\ options.speed = "fastest" /\ options.maxPriceInGwei = 1
  /\ supports1559(chain)
  /\ calls[1].pc = "done" /\ ~calls[1].given
  /\ calls[1].resolved = EmptyOverrides

\* where a call is suspended inside getCallOverrides
FeePcs == {"getFeeData", "feeChainId", "getBlock", "gasStation", "getGasPrice", "browserOverrides"}

\* the fee resolution of call c has run to its end
FeeResolved(c) == ~calls[c].given /\ calls[c].merged

C35_NoCompletedWhenWaitFails ==
  \A c \in Calls :
    (calls[c].path = "direct" /\ calls[c].error = "ReceiptFailed") =>
      /\ calls[c].pc = "failed"
      /\ ~Has(calls[c], "txCompleted")
      /\ \A i \in DOMAIN calls[c].txEvents : calls[c].txEvents[i].status # "completed"

\* C35, the part the code keeps: the call fails, with the receipt never obtained
C35_CallFailsWhenWaitFails ==
  \A c \in Calls :
    (calls[c].path = "direct" /\ calls[c].error = "ReceiptFailed") =>
      /\ calls[c].pc = "failed"
      /\ ~Has(calls[c], "receipt")

\* C36: once the cached validity flag is true it never becomes false again,
\* under any interleaving of sendTransaction and updateSignerOrProvider calls.
C36_ValidityFlagStaysTrue == [][isValidContract => isValidContract']_vars

\* call c reaches the merge step (lines 281-286) in this step
ReachesMerge(c) == ~calls[c].merged /\ calls'[c].merged

\* call c fails in this step without having reached the merge step
FailsBeforeMerge(c) == calls[c].pc # "failed" /\ calls'[c].pc = "failed" /\ ~calls'[c].merged

\* C37: a pending custom override is cleared only by a sendTransaction call
\* that reaches the merge step, and that call applies it; a call that fails in
\* the validity check or the fee resolution leaves it set, for the next call
\* that reaches the merge.
C37_HookClearedOnlyAtMerge ==
  [][/\ (customOverrides.install # 0 /\ customOverrides'.install # customOverrides.install)
          => \/ \E c \in Calls : /\ ReachesMerge(c)
                                 /\ calls'[c].appliedHook = customOverrides.install
                                 /\ calls'[c].custom = customOverrides.overrides
                                 /\ customOverrides' = ClearedHook
             \/ installs' = installs + 1
     /\ \A c \in Calls : FailsBeforeMerge(c) => customOverrides' = customOverrides]_vars

C37_Witness ==
  /\ calls[1].pc = "failed" /\ ~calls[1].merged
  /\ calls[1].error \in {"NetworkError"}
  /\ calls[2].merged /\ calls[2].appliedHook = 1
  /\ calls[2].custom # EmptyOverrides
  /\ customOverrides = ClearedHook

\* the fee getCallOverrides resolves for call c, had the tier been s
LegacyFeeAt(s) == getPreferredGasPrice([options EXCEPT !.speed = s], chain.gasPrice)
PriorityFeeAt(c, s) ==
  getPreferredPriorityFee([options EXCEPT !.speed = s], calls[c].defaultPriorityFee)

\* C38: for the same network state and ceiling the resolved fee is monotone
\* in the speed tier, standard <= fast <= fastest, for maxPriorityFeePerGas
\* on the EIP-1559 path and for gasPrice on the legacy path, also for network
\* values below 100 wei.
C38_FeeMonotoneInSpeed ==
  \A c \in Calls :
    (FeeResolved(c) /\ ~browser) =>
      IF supports1559(chain)
      THEN /\ calls[c].resolved["maxPriorityFeePerGas"] = PriorityFeeAt(c, options.speed)
           /\ PriorityFeeAt(c, "standard") <= PriorityFeeAt(c, "fast")
           /\ PriorityFeeAt(c, "fast") <= PriorityFeeAt(c, "fastest")
      ELSE /\ calls[c].resolved["gasPrice"] = LegacyFeeAt(options.speed)
           /\ LegacyFeeAt("standard") <= LegacyFeeAt("fast")
           /\ LegacyFeeAt("fast") <= LegacyFeeAt("fastest")

\* C38, the part the code keeps: the EIP-1559 path is monotone for every
\* value, the legacy path from 100 wei on
C38_MonotoneFrom100Wei ==
  \A c \in Calls :
    (FeeResolved(c) /\ ~browser) =>
      IF supports1559(chain)
      THEN /\ PriorityFeeAt(c, "standard") <= PriorityFeeAt(c, "fast")
           /\ PriorityFeeAt(c, "fast") <= PriorityFeeAt(c, "fastest")
      ELSE /\ LegacyFeeAt("fast") <= LegacyFeeAt("fastest")
           /\ chain.gasPrice >= 100 => LegacyFeeAt("standard") <= LegacyFeeAt("fast")

\* C39: on the Biconomy backend no permit substitution takes place: a
\* two-argument "approve" is relayed like any other call, as a request {from,
\* to, token, txGas, tokenGasPrice, batchId, batchNonce, deadline, data} with
\* batchId 0, token the zero address and tokenGasPrice 0, signed as a personal
\* message over its hash.
C39_BiconomyRelaysApproveAsIs ==
  \A c \in Calls :
    (Backend(options) = "biconomy" /\ calls[c].path = "gasless"
       /\ Has(calls[c], "signRequest")) =>
      /\ DOMAIN calls[c].built = BiconomyRequestFields
      /\ calls[c].built["batchId"] = 0
      /\ calls[c].built["token"] = AddressZero
      /\ calls[c].built["tokenGasPrice"] = "0"
      /\ calls[c].built["data"] = [fn |-> calls[c].fn, nargs |-> calls[c].nargs]
      /\ calls[c].built["from"] = calls[c].from
      /\ calls[c].built["txGas"] = calls[c].gasLimit
      /\ calls[c].built["batchNonce"] = calls[c].nonce
      /\ calls[c].signedWith = "signMessage"
      /\ calls[c].signed = BiconomyHashToSign
      /\ calls[c].signed.fields = DOMAIN calls[c].built
      /\ calls[c].message = BiconomyHashToSign
      /\ Has(calls[c], "relayPost") =>
           /\ calls[c].request.kind # "PermitRequest"
           /\ calls[c].messageType = ""

C39_Witness ==
  /\ Backend(options) = "biconomy" /\ chain.permit
  /\ calls[1].fn = "approve" /\ calls[1].nargs = 2
  /\ calls[1].pc = "done" /\ calls[1].path = "gasless"
  /\ calls[1].signedWith = "signMessage"

====
